---- MODULE Spec2Model ----
(***************************************************************************)
(* Model of the qiskit_ibm_catalog facades QiskitFunctionsCatalog          *)
(* (catalog.py) and QiskitServerless (serverless.py).                      *)
(*                                                                         *)
(* Both classes hold one reference to an IBMServerlessClient and forward   *)
(* every method to it.  The client, the credential store                   *)
(* (QiskitRuntimeService) and the warnings machinery are external: a call  *)
(* to them is recorded, and the client's answer to a call is an input.     *)
(*                                                                         *)
(* Python values are modelled as strings; None is the string "None"; a     *)
(* keyword dictionary is a function from key strings to value strings; a   *)
(* positional argument list is a sequence.                                 *)
(*                                                                         *)
(* The second part models one run of the Hamiltonian-simulation template   *)
(* (hamsim_template.pregenerated.py), a script that runs top to bottom:    *)
(* specification TemplateSpec.  Circuit construction, tensor-network       *)
(* simulation, the scipy optimizer, the transpiler and the runtime service *)
(* are external: each such step either completes or raises.  A fidelity or *)
(* cost x is modelled as the integer 10x.                                  *)
(***************************************************************************)
EXTENDS Integers, Sequences, FiniteSets, TLC

VARIABLES
    facade,   \* the facade instance: its class and its _client attribute
    last,     \* the most recent method invocation and what it did
    watch,    \* an instance-method input that is watched over the whole history
    first     \* the client calls the watched input led to when first invoked,
              \* and whether it has been invoked again since

\* one run of the template script
VARIABLES
    serverless,  \* what is_running_in_serverless() answers
    arguments,   \* the argument bundle
    pc,          \* the cell of the script that runs next
    locals,      \* dry_run, aqc_stopping_fidelity, aqc_max_iterations, estimator_options
    opt,         \* the optimizer: iterations done, last cost, status, stopping_point
    output,      \* the keys of the `output` dict
    events,      \* the stages completed so far, in order
    results,     \* the bundles handed to save_result, in order
    exit         \* how the run ended, if it has

fvars == <<facade, last, watch, first>>
tvars == <<serverless, arguments, pc, locals, opt, output, events, results, exit>>
vars == <<facade, last, watch, first,
          serverless, arguments, pc, locals, opt, output, events, results, exit>>

\* ---------------------------------------------------------------- bounds
\* most keyword filters a caller supplies to list / jobs / provider_jobs
MaxKwargs == 2
\* longest list the client returns
MaxListLen == 2

\* ---------------------------------------------------------------- values
None == "None"
\* marks an argument the caller did not pass (the signature default applies)
Absent == "<absent>"

KwKeys == {"filter", "limit", "offset"}
KwValues(k) == IF k = "filter" THEN {"catalog", "serverless"} ELSE IF k = "limit" THEN {"10"} ELSE {"0"}
Kwargs ==
    UNION {{f \in [D -> {"catalog", "serverless", "10", "0"}] : \A k \in D : f[k] \in KwValues(k)} :
              D \in {S \in SUBSET KwKeys : Cardinality(S) <= MaxKwargs}}
NoKw == [k \in {} |-> None]

Tokens == {"tok"}
Names == {"acct"}
Instances == {"crn"}
Functions == {"fn1", "fn2"}
Files == {"data.tar"}
JobIds == {"job1", "job2"}
Titles == {"title1"}
Providers == {"ibm"}
TargetNames == {"out.tar"}
Locations == {"/tmp/"}
Items == {"r1", "r2"}

\* what the external client answers to one call: a list, an object, None, or
\* an exception
Lists == UNION {[1..n -> Items] : n \in 0..MaxListLen}
ListResponses ==
    {[kind |-> "list", val |-> l] : l \in Lists}
        \cup {[kind |-> "raise", val |-> <<"ClientError">>]}
\* ... to a call that answers with one object or None
Responses ==
    {[kind |-> "object", val |-> <<"r1">>],
     [kind |-> "none", val |-> <<>>],
     [kind |-> "raise", val |-> <<"ClientError">>]}
\* what the external credential store answers
StoreResponses ==
    {[kind |-> "none", val |-> <<>>], [kind |-> "raise", val |-> <<"AccountAlreadyExistsError">>]}

\* a call into an external object: the object, the operation and the arguments
Call(target, op, pos, kw) == [target |-> target, op |-> op, pos |-> pos, kw |-> kw]

\* the value a parameter takes: the caller's, or the signature's default
Default(v, d) == IF v = Absent THEN d ELSE v

\* {**a, **b}: the keys of both, b's value where both have the key
DictMerge(a, b) ==
    [k \in (DOMAIN a) \cup (DOMAIN b) |-> IF k \in DOMAIN b THEN b[k] ELSE a[k]]

\* `return self._client.<op>(...)`: one call into the client; what the client
\* returns is returned, what it raises propagates
Forward(call, resp) ==
    [warnings |-> <<>>, client |-> <<call>>, store |-> <<>>, outcome |-> resp]

\* ---------------------------------------------- qiskit_serverless Channel
\* Channel(channel): the member whose value is `channel`, else ValueError
Channel(channel) ==
    CASE channel = "local" -> "LOCAL"
      [] channel = "ibm_quantum" -> "IBM_QUANTUM"
      [] channel = "ibm_cloud" -> "IBM_CLOUD"
      [] OTHER -> "ValueError"

\* <member>.value
ChannelValue(member) ==
    CASE member = "LOCAL" -> "local"
      [] member = "IBM_QUANTUM" -> "ibm_quantum"
      [] member = "IBM_CLOUD" -> "ibm_cloud"

\* ------------------------------------------------- QiskitFunctionsCatalog
Catalog_PRE_FILTER_KEYWORD == "catalog"

Catalog_init(token, channel, instance, name) ==
    [cls |-> "QiskitFunctionsCatalog",
     _client |-> Call("qiskit_serverless", "IBMServerlessClient", <<>>,
                      [channel |-> Default(channel, ChannelValue("IBM_QUANTUM")),
                       token |-> Default(token, None),
                       instance |-> Default(instance, None),
                       name |-> Default(name, None)])]

\* load that asks the client a second time when the first call raised, and
\* answers None when that fails too
Catalog_load_retry(self, title, provider, resp) ==
    LET call == Call(self._client, "function", <<>>,
                     [title |-> title, provider |-> Default(provider, None)])
    IN  IF resp.kind = "raise"
        THEN [warnings |-> <<>>, client |-> <<call, call>>, store |-> <<>>,
              outcome |-> [kind |-> "none", val |-> <<>>]]
        ELSE Forward(call, resp)

Catalog_load(self, title, provider, resp) ==
    Forward(Call(self._client, "function", <<>>,
                 [title |-> title, provider |-> Default(provider, None)]), resp)

\* list with the merge the other way round, {**{"filter": ...}, **kwargs}: a
\* caller's `filter` wins
Catalog_list_callerWins(self, kwargs, resp) ==
    Forward(Call(self._client, "functions", <<>>,
                 DictMerge([filter |-> Catalog_PRE_FILTER_KEYWORD], kwargs)), resp)

Catalog_list(self, kwargs, resp) ==
    Forward(Call(self._client, "functions", <<>>,
                 DictMerge(kwargs, [filter |-> Catalog_PRE_FILTER_KEYWORD])), resp)

\* jobs that repeats the request of the jobs call before it (a cached query)
Catalog_jobs_cached(self, kwargs, resp) ==
    IF last.method = "jobs"
    THEN [warnings |-> <<>>, client |-> last.client, store |-> <<>>, outcome |-> resp]
    ELSE Forward(Call(self._client, "jobs", <<>>,
                      DictMerge(kwargs, [filter |-> Catalog_PRE_FILTER_KEYWORD])), resp)

Catalog_jobs(self, kwargs, resp) ==
    Forward(Call(self._client, "jobs", <<>>,
                 DictMerge(kwargs, [filter |-> Catalog_PRE_FILTER_KEYWORD])), resp)

\* provider_jobs that applies the catalog filter as list and jobs do
Catalog_provider_jobs_filtered(self, function, kwargs, resp) ==
    Forward(Call(self._client, "provider_jobs", <<function>>,
                 DictMerge(kwargs, [filter |-> Catalog_PRE_FILTER_KEYWORD])), resp)

Catalog_provider_jobs(self, function, kwargs, resp) ==
    Forward(Call(self._client, "provider_jobs", <<function>>, kwargs), resp)

Catalog_job(self, job_id, resp) ==
    Forward(Call(self._client, "job", <<>>, [job_id |-> job_id]), resp)

Catalog_get_job_by_id(self, job_id, resp) ==
    LET r == Catalog_job(self, job_id, resp)
    IN  [r EXCEPT !.warnings = <<"DeprecationWarning">> \o r.warnings]

Catalog_files(self, function, resp) ==
    Forward(Call(self._client, "files", <<function>>, NoKw), resp)

Catalog_provider_files(self, function, resp) ==
    Forward(Call(self._client, "provider_files", <<function>>, NoKw), resp)

Catalog_file_download(self, file, function, target_name, download_location, resp) ==
    Forward(Call(self._client, "file_download",
                 <<file, function, Default(target_name, None),
                   Default(download_location, "./")>>, NoKw), resp)

Catalog_provider_file_download(self, file, function, target_name, download_location, resp) ==
    Forward(Call(self._client, "provider_file_download",
                 <<file, function, Default(target_name, None),
                   Default(download_location, "./")>>, NoKw), resp)

Catalog_file_delete(self, file, function, resp) ==
    Forward(Call(self._client, "file_delete", <<file, function>>, NoKw), resp)

Catalog_provider_file_delete(self, file, function, resp) ==
    Forward(Call(self._client, "provider_file_delete", <<file, function>>, NoKw), resp)

Catalog_file_upload(self, file, function, resp) ==
    Forward(Call(self._client, "file_upload", <<file, function>>, NoKw), resp)

Catalog_provider_file_upload(self, file, function, resp) ==
    Forward(Call(self._client, "provider_file_upload", <<file, function>>, NoKw), resp)

\* save_account that saves first and validates the channel afterwards
Catalog_save_account_saveFirst(token, channel, instance, name, overwrite, resp) ==
    LET given == Default(channel, ChannelValue("IBM_QUANTUM"))
        channel_enum == Channel(given)
        saved == <<Call("QiskitRuntimeService", "save_account", <<>>,
                        [channel |-> given,
                         token |-> Default(token, None),
                         instance |-> Default(instance, None),
                         name |-> Default(name, None),
                         overwrite |-> Default(overwrite, "False")])>>
    IN  [warnings |-> <<>>, client |-> <<>>, store |-> saved,
         outcome |-> IF resp.kind = "raise" THEN resp
                     ELSE IF channel_enum = "ValueError"
                     THEN [kind |-> "raise",
                           val |-> <<"QiskitServerlessException", ChannelValue("LOCAL"),
                                     ChannelValue("IBM_QUANTUM"), ChannelValue("IBM_CLOUD")>>]
                     ELSE [kind |-> "none", val |-> <<>>]]

\* save_account that hands the store the enum member's name and leaves
\* overwrite at its default
Catalog_save_account_memberName(token, channel, instance, name, overwrite, resp) ==
    LET channel_enum == Channel(Default(channel, ChannelValue("IBM_QUANTUM")))
    IN  IF channel_enum = "ValueError"
        THEN [warnings |-> <<>>, client |-> <<>>, store |-> <<>>,
              outcome |-> [kind |-> "raise",
                           val |-> <<"QiskitServerlessException", ChannelValue("LOCAL"),
                                     ChannelValue("IBM_QUANTUM"), ChannelValue("IBM_CLOUD")>>]]
        ELSE [warnings |-> <<>>, client |-> <<>>,
              store |-> <<Call("QiskitRuntimeService", "save_account", <<>>,
                               [channel |-> channel_enum,
                                token |-> Default(token, None),
                                instance |-> Default(instance, None),
                                name |-> Default(name, None),
                                overwrite |-> "False"])>>,
              outcome |-> IF resp.kind = "raise" THEN resp
                          ELSE [kind |-> "none", val |-> <<>>]]

\* static: validates the channel, then one call into the credential store;
\* the method has no return statement, so a store result is dropped and only
\* a store exception reaches the caller
Catalog_save_account(token, channel, instance, name, overwrite, resp) ==
    LET channel_enum == Channel(Default(channel, ChannelValue("IBM_QUANTUM")))
    IN  IF channel_enum = "ValueError"
        THEN [warnings |-> <<>>, client |-> <<>>, store |-> <<>>,
              outcome |-> [kind |-> "raise",
                           val |-> <<"QiskitServerlessException", ChannelValue("LOCAL"),
                                     ChannelValue("IBM_QUANTUM"), ChannelValue("IBM_CLOUD")>>]]
        ELSE [warnings |-> <<>>, client |-> <<>>,
              store |-> <<Call("QiskitRuntimeService", "save_account", <<>>,
                               [channel |-> ChannelValue(channel_enum),
                                token |-> Default(token, None),
                                instance |-> Default(instance, None),
                                name |-> Default(name, None),
                                overwrite |-> Default(overwrite, "False")])>>,
              outcome |-> IF resp.kind = "raise" THEN resp
                          ELSE [kind |-> "none", val |-> <<>>]]

\* ------------------------------------------------------- QiskitServerless
Serverless_PRE_FILTER_KEYWORD == "serverless"

Serverless_init(token, name) ==
    [cls |-> "QiskitServerless",
     _client |-> Call("qiskit_serverless", "IBMServerlessClient", <<>>,
                      [token |-> Default(token, None), name |-> Default(name, None)])]

Serverless_upload(self, function, resp) ==
    Forward(Call(self._client, "upload", <<function>>, NoKw), resp)

Serverless_load(self, title, provider, resp) ==
    Forward(Call(self._client, "function", <<>>,
                 [title |-> title, provider |-> Default(provider, None)]), resp)

\* list handing the client's list back newest first
Serverless_list_reversed(self, kwargs, resp) ==
    LET r == Forward(Call(self._client, "functions", <<>>,
                          DictMerge(kwargs, [filter |-> Serverless_PRE_FILTER_KEYWORD])), resp)
        n == Len(resp.val)
    IN  [r EXCEPT !.outcome.val = [i \in 1..n |-> resp.val[n + 1 - i]]]

Serverless_list(self, kwargs, resp) ==
    Forward(Call(self._client, "functions", <<>>,
                 DictMerge(kwargs, [filter |-> Serverless_PRE_FILTER_KEYWORD])), resp)

\* jobs forwarding the caller's filters as they are, as provider_jobs does
Serverless_jobs_unfiltered(self, kwargs, resp) ==
    Forward(Call(self._client, "jobs", <<>>, kwargs), resp)

Serverless_jobs(self, kwargs, resp) ==
    Forward(Call(self._client, "jobs", <<>>,
                 DictMerge(kwargs, [filter |-> Serverless_PRE_FILTER_KEYWORD])), resp)

Serverless_job(self, job_id, resp) ==
    Forward(Call(self._client, "job", <<>>, [job_id |-> job_id]), resp)

\* get_job_by_id raising the deprecation instead of warning: no lookup
Serverless_get_job_by_id_raises(self, job_id, resp) ==
    [warnings |-> <<"DeprecationWarning">>, client |-> <<>>, store |-> <<>>,
     outcome |-> [kind |-> "raise", val |-> <<"DeprecationWarning">>]]

Serverless_get_job_by_id(self, job_id, resp) ==
    LET r == Serverless_job(self, job_id, resp)
    IN  [r EXCEPT !.warnings = <<"DeprecationWarning">> \o r.warnings]

Serverless_files(self, function, resp) ==
    Forward(Call(self._client, "files", <<function>>, NoKw), resp)

Serverless_provider_files(self, function, resp) ==
    Forward(Call(self._client, "provider_files", <<function>>, NoKw), resp)

Serverless_file_download(self, file, function, target_name, download_location, resp) ==
    Forward(Call(self._client, "download",
                 <<file, Default(download_location, "./"), function,
                   Default(target_name, None)>>, NoKw), resp)

Serverless_provider_file_download(self, file, function, target_name, download_location, resp) ==
    Forward(Call(self._client, "provider_download",
                 <<file, Default(download_location, "./"), function,
                   Default(target_name, None)>>, NoKw), resp)

Serverless_file_delete(self, file, function, resp) ==
    Forward(Call(self._client, "delete", <<file, function>>, NoKw), resp)

Serverless_provider_file_delete(self, file, function, resp) ==
    Forward(Call(self._client, "provider_delete", <<file, function>>, NoKw), resp)

Serverless_file_upload(self, file, function, resp) ==
    Forward(Call(self._client, "upload", <<file, function>>, NoKw), resp)

Serverless_provider_file_upload(self, file, function, resp) ==
    Forward(Call(self._client, "provider_upload", <<file, function>>, NoKw), resp)

Serverless_save_account(token, name, overwrite, resp) ==
    [warnings |-> <<>>, client |-> <<>>,
     store |-> <<Call("QiskitRuntimeService", "save_account", <<>>,
                      [token |-> Default(token, None),
                       name |-> Default(name, None),
                       overwrite |-> Default(overwrite, "False")])>>,
     outcome |-> IF resp.kind = "raise" THEN resp ELSE [kind |-> "none", val |-> <<>>]]

\* ------------------------------------------------------------ the machine
\* no template run is in progress
NoRun ==
    /\ serverless = FALSE
    /\ arguments = <<>>
    /\ pc = "none"
    /\ locals = <<>>
    /\ opt = <<>>
    /\ output = {}
    /\ events = <<>>
    /\ results = <<>>
    /\ exit = [state |-> "none", what |-> "", arg |-> "", by |-> ""]

Catalog == "QiskitFunctionsCatalog"
Serverless == "QiskitServerless"

NoInvocation ==
    [cls |-> "", method |-> "", pos |-> <<>>, kw |-> NoKw,
     resp |-> [kind |-> "none", val |-> <<>>],
     warnings |-> <<>>, client |-> <<>>, store |-> <<>>,
     outcome |-> [kind |-> "none", val |-> <<>>]]

\* the inputs watched for their dependence on the history of calls
Watched ==
    {[method |-> "list", pos |-> <<>>, kw |-> NoKw],
     [method |-> "jobs", pos |-> <<>>, kw |-> [limit |-> "10"]],
     [method |-> "job", pos |-> <<"job1">>, kw |-> NoKw]}
NotYet == [calls |-> <<>>, seen |-> FALSE, again |-> FALSE]

Init ==
    /\ facade \in
         {Catalog_init(t, c, i, n) :
              t \in Tokens, c \in {Absent}, i \in {Absent}, n \in {Absent}}
           \cup {Serverless_init(t, n) : t \in Tokens, n \in Names \cup {Absent}}
    /\ last = NoInvocation
    /\ watch \in Watched
    /\ first = NotYet
    /\ NoRun

\* the method `method` of class cls was invoked with the given arguments and
\* the external object answered resp; r is what the method did.  No method
\* assigns an attribute of self.
Invoke(cls, method, pos, kw, resp, r) ==
    /\ last' = [cls |-> cls, method |-> method, pos |-> pos, kw |-> kw, resp |-> resp,
                warnings |-> r.warnings, client |-> r.client, store |-> r.store,
                outcome |-> r.outcome]
    /\ first' = IF method # "save_account"
                   /\ watch = [method |-> method, pos |-> pos, kw |-> kw]
                THEN IF first.seen THEN [first EXCEPT !.again = TRUE]
                     ELSE [calls |-> r.client, seen |-> TRUE, again |-> FALSE]
                ELSE first
    /\ UNCHANGED <<facade, watch>>
    /\ UNCHANGED tvars

Upload ==
    /\ facade.cls = Serverless
    /\ \E function \in Functions, resp \in Responses :
          Invoke(facade.cls, "upload", <<function>>, NoKw, resp,
                 Serverless_upload(facade, function, resp))

Load ==
    \E title \in Titles, provider \in Providers \cup {Absent}, resp \in Responses :
        Invoke(facade.cls, "load", <<title, provider>>, NoKw, resp,
               IF facade.cls = Catalog THEN Catalog_load(facade, title, provider, resp)
               ELSE Serverless_load(facade, title, provider, resp))

List ==
    \E kwargs \in Kwargs, resp \in ListResponses :
        Invoke(facade.cls, "list", <<>>, kwargs, resp,
               IF facade.cls = Catalog THEN Catalog_list(facade, kwargs, resp)
               ELSE Serverless_list(facade, kwargs, resp))

Jobs ==
    \E kwargs \in Kwargs, resp \in ListResponses :
        Invoke(facade.cls, "jobs", <<>>, kwargs, resp,
               IF facade.cls = Catalog THEN Catalog_jobs(facade, kwargs, resp)
               ELSE Serverless_jobs(facade, kwargs, resp))

ProviderJobs ==
    /\ facade.cls = Catalog
    /\ \E function \in Functions, kwargs \in Kwargs, resp \in ListResponses :
          Invoke(facade.cls, "provider_jobs", <<function>>, kwargs, resp,
                 Catalog_provider_jobs(facade, function, kwargs, resp))

Job ==
    \E job_id \in JobIds, resp \in Responses :
        Invoke(facade.cls, "job", <<job_id>>, NoKw, resp,
               IF facade.cls = Catalog THEN Catalog_job(facade, job_id, resp)
               ELSE Serverless_job(facade, job_id, resp))

GetJobById ==
    \E job_id \in JobIds, resp \in Responses :
        Invoke(facade.cls, "get_job_by_id", <<job_id>>, NoKw, resp,
               IF facade.cls = Catalog THEN Catalog_get_job_by_id(facade, job_id, resp)
               ELSE Serverless_get_job_by_id(facade, job_id, resp))

FilesOp ==
    \E function \in Functions, resp \in ListResponses :
        Invoke(facade.cls, "files", <<function>>, NoKw, resp,
               IF facade.cls = Catalog THEN Catalog_files(facade, function, resp)
               ELSE Serverless_files(facade, function, resp))

ProviderFiles ==
    \E function \in Functions, resp \in ListResponses :
        Invoke(facade.cls, "provider_files", <<function>>, NoKw, resp,
               IF facade.cls = Catalog THEN Catalog_provider_files(facade, function, resp)
               ELSE Serverless_provider_files(facade, function, resp))

FileDownload ==
    \E file \in Files, function \in Functions, target_name \in TargetNames \cup {Absent},
       download_location \in Locations \cup {Absent}, resp \in Responses :
        Invoke(facade.cls, "file_download",
               <<file, function, target_name, download_location>>, NoKw, resp,
               IF facade.cls = Catalog
               THEN Catalog_file_download(facade, file, function, target_name,
                                          download_location, resp)
               ELSE Serverless_file_download(facade, file, function, target_name,
                                             download_location, resp))

ProviderFileDownload ==
    \E file \in Files, function \in Functions, target_name \in TargetNames \cup {Absent},
       download_location \in Locations \cup {Absent}, resp \in Responses :
        Invoke(facade.cls, "provider_file_download",
               <<file, function, target_name, download_location>>, NoKw, resp,
               IF facade.cls = Catalog
               THEN Catalog_provider_file_download(facade, file, function, target_name,
                                                   download_location, resp)
               ELSE Serverless_provider_file_download(facade, file, function, target_name,
                                                      download_location, resp))

FileDelete ==
    \E file \in Files, function \in Functions, resp \in Responses :
        Invoke(facade.cls, "file_delete", <<file, function>>, NoKw, resp,
               IF facade.cls = Catalog THEN Catalog_file_delete(facade, file, function, resp)
               ELSE Serverless_file_delete(facade, file, function, resp))

ProviderFileDelete ==
    \E file \in Files, function \in Functions, resp \in Responses :
        Invoke(facade.cls, "provider_file_delete", <<file, function>>, NoKw, resp,
               IF facade.cls = Catalog
               THEN Catalog_provider_file_delete(facade, file, function, resp)
               ELSE Serverless_provider_file_delete(facade, file, function, resp))

FileUpload ==
    \E file \in Files, function \in Functions, resp \in Responses :
        Invoke(facade.cls, "file_upload", <<file, function>>, NoKw, resp,
               IF facade.cls = Catalog THEN Catalog_file_upload(facade, file, function, resp)
               ELSE Serverless_file_upload(facade, file, function, resp))

ProviderFileUpload ==
    \E file \in Files, function \in Functions, resp \in Responses :
        Invoke(facade.cls, "provider_file_upload", <<file, function>>, NoKw, resp,
               IF facade.cls = Catalog
               THEN Catalog_provider_file_upload(facade, file, function, resp)
               ELSE Serverless_provider_file_upload(facade, file, function, resp))

\* the channel strings a caller passes to save_account
ChannelInputs == {"local", "ibm_quantum", "ibm_cloud", "bogus", "IBM_CLOUD"}

CatalogSaveAccount ==
    \E token \in Tokens \cup {Absent}, channel \in ChannelInputs \cup {Absent},
       instance \in Instances \cup {Absent}, name \in Names \cup {Absent},
       overwrite \in {"True", Absent}, resp \in StoreResponses :
        Invoke(Catalog, "save_account", <<token, channel, instance, name, overwrite>>,
               NoKw, resp,
               Catalog_save_account(token, channel, instance, name, overwrite, resp))

ServerlessSaveAccount ==
    \E token \in Tokens \cup {Absent}, name \in Names \cup {Absent},
       overwrite \in {"True", Absent}, resp \in StoreResponses :
        Invoke(Serverless, "save_account", <<token, name, overwrite>>, NoKw, resp,
               Serverless_save_account(token, name, overwrite, resp))

Next ==
    \/ Upload
    \/ Load
    \/ List
    \/ Jobs
    \/ ProviderJobs
    \/ Job
    \/ GetJobById
    \/ FilesOp
    \/ ProviderFiles
    \/ FileDownload
    \/ ProviderFileDownload
    \/ FileDelete
    \/ ProviderFileDelete
    \/ FileUpload
    \/ ProviderFileUpload
    \/ CatalogSaveAccount
    \/ ServerlessSaveAccount

Spec == Init /\ [][Next]_vars

\* ============================================== the template: its values
\* 1.0 on the scale fidelities and costs are modelled on (tenths)
Unit == 10

\* bounds of the argument bundles explored
MaxMissing == 1
MaxIterations == 2

\* arguments[...] lookups of the script, in the order it makes them
RequiredArguments ==
    <<"backend_name", "aqc_evolution_time", "aqc_ansatz_num_trotter_steps",
      "aqc_target_num_trotter_steps", "remainder_evolution_time",
      "remainder_num_trotter_steps">>

RequiredKeys == {RequiredArguments[i] : i \in DOMAIN RequiredArguments}

\* the bundle the script uses when it is run as a notebook
NotebookArguments ==
    [dry_run |-> FALSE,
     backend_name |-> "ibm_fez",
     aqc_evolution_time |-> 2,
     aqc_ansatz_num_trotter_steps |-> 1,
     aqc_target_num_trotter_steps |-> 32,
     remainder_evolution_time |-> 2,
     remainder_num_trotter_steps |-> 4]

\* d.get(key, default)
Get(d, key, default) == IF key \in DOMAIN d THEN d[key] ELSE default

\* {key: v} when s = {v}, {} when s = {}
Entry(key, s) == [k \in {key : v \in s} |-> CHOOSE v \in s : TRUE]

\* nested option dicts: a value is a leaf or a dict of values
Leaf(v) == [t |-> "leaf", v |-> v]
Dict(d) == [t |-> "dict", d |-> d]
EmptyDict == [k \in {} |-> Leaf("")]

estimator_default_options ==
    ("resilience" :> Dict(
        ("measure_mitigation" :> Leaf("True")) @@
        ("zne_mitigation" :> Leaf("True")) @@
        ("zne" :> Dict(
            ("amplifier" :> Leaf("gate_folding")) @@
            ("noise_factors" :> Leaf("[1, 2, 3]")) @@
            ("extrapolated_noise_factors" :> Leaf("linspace(0, 3, 31)")) @@
            ("extrapolator" :> Leaf("[exponential, linear, fallback]")))) @@
        ("measure_noise_learning" :> Dict(
            ("num_randomizations" :> Leaf("512")) @@
            ("shots_per_randomization" :> Leaf("512")))))) @@
    ("twirling" :> Dict(
        ("enable_gates" :> Leaf("True")) @@
        ("enable_measure" :> Leaf("True")) @@
        ("num_randomizations" :> Leaf("300")) @@
        ("shots_per_randomization" :> Leaf("100")) @@
        ("strategy" :> Leaf("active"))))

\* mergedeep, Strategy.REPLACE: src is merged into dst key by key; where both
\* hold a dict the merge recurses, otherwise the value of src replaces dst's
RECURSIVE deepmerge(_, _)
deepmerge(dst, src) ==
    [key \in DOMAIN dst \cup DOMAIN src |->
        IF key \in DOMAIN src
        THEN IF key \in DOMAIN dst /\ dst[key].t = "dict" /\ src[key].t = "dict"
             THEN Dict(deepmerge(dst[key].d, src[key].d))
             ELSE src[key]
        ELSE dst[key]]

\* merge(destination, source): returns destination, updated in place
merge(destination, source) == deepmerge(destination, source)

\* estimator_options a caller may pass
UserOptions ==
    { ("twirling" :> Dict("strategy" :> Leaf("all"))),
      ("default_shots" :> Leaf("1024")) @@
      ("resilience" :> Dict(("zne_mitigation" :> Leaf("False")) @@
                            ("zne" :> Dict("amplifier" :> Leaf("pea"))))) }

\* the argument bundles of a managed run: get_arguments() returns what the
\* caller passed, so any key may be absent
Bundle(dry, fid, maxit, est, problem, missing) ==
    Entry("dry_run", dry) @@ Entry("aqc_stopping_fidelity", fid)
      @@ Entry("aqc_max_iterations", maxit) @@ Entry("estimator_options", est)
      @@ Entry("hamiltonian", problem) @@ Entry("observable", problem)
      @@ [k \in RequiredKeys \ missing |-> NotebookArguments[k]]

StoppingFidelities == {0, 5, Unit, Unit + 1}

Bundles ==
    { Bundle(dry, fid, maxit, est, problem, missing) :
        dry \in {{}, {TRUE}, {FALSE}},
        fid \in {{}} \cup {{f} : f \in StoppingFidelities},
        maxit \in {{}} \cup {{n} : n \in 1..MaxIterations},
        est \in {{}} \cup {{o} : o \in UserOptions},
        problem \in {{}, {"operator"}},
        missing \in {m \in SUBSET RequiredKeys :
                        Cardinality(m) <= MaxMissing \/ m = RequiredKeys} }

\* intermediate costs (1 - fidelity) the optimizer may report
Costs == {0, 1, 5}

\* result.status of scipy's minimize
Success == 0
MaxIterationsReached == 1
Abnormal == 2
EarlyTermination == 99

\* arguments.get("aqc_max_iterations", 500)
DefaultMaxIterations == 500

\* ============================================= the template: its machine
\* no facade is in use during a run of the template
NoFacade ==
    /\ facade = <<>>
    /\ last = NoInvocation
    /\ watch = <<>>
    /\ first = NotYet

Running == [state |-> "running", what |-> "", arg |-> "", by |-> ""]

\* the names the script has not assigned yet
Unassigned ==
    [dry_run |-> FALSE, aqc_stopping_fidelity |-> 0, aqc_max_iterations |-> 0,
     estimator_options |-> EmptyDict]

TInit ==
    /\ NoFacade
    /\ serverless \in BOOLEAN
    /\ arguments \in IF serverless THEN Bundles ELSE {NotebookArguments}
    /\ pc = "arguments"
    /\ locals = Unassigned
    /\ opt = [nit |-> 0, fun |-> 0]
    /\ output = {}
    /\ events = <<>>
    /\ results = <<>>
    /\ exit = Running

\* an exception leaves the script: nothing after it runs
Raise(what, arg, by) ==
    /\ exit' = [state |-> "error", what |-> what, arg |-> arg, by |-> by]
    /\ pc' = "done"
    /\ UNCHANGED <<output, events>>

\* a cell completes: control moves on, the stage and its output keys are recorded
Complete(next, stage, keys) ==
    /\ pc' = next
    /\ events' = Append(events, stage)
    /\ output' = output \cup keys
    /\ UNCHANGED exit

\* a cell whose work is done by a library or a remote service: it completes or
\* the library's exception propagates
External(next, stage, keys) ==
    /\ \/ Complete(next, stage, keys)
       \/ Raise("Exception", stage, "external")
    /\ UNCHANGED <<serverless, arguments, locals, opt, results>>
    /\ UNCHANGED fvars

\* the first required argument the bundle lacks, in lookup order
FirstMissing(d) ==
    LET i == CHOOSE i \in DOMAIN RequiredArguments :
                 /\ RequiredArguments[i] \notin DOMAIN d
                 /\ \A j \in 1..(i - 1) : RequiredArguments[j] \in DOMAIN d
    IN  RequiredArguments[i]

\* a check that lets 0.0 through
StoppingFidelityAccepted_closed(f) == 0 <= f /\ f <= Unit

\* 0.0 < aqc_stopping_fidelity <= 1.0
StoppingFidelityAccepted(f) == 0 < f /\ f <= Unit

\* an extraction that tolerates missing arguments
ExtractArguments_lenient ==
    /\ pc = "arguments"
    /\ locals' = [locals EXCEPT
                     !.dry_run = Get(arguments, "dry_run", FALSE),
                     !.aqc_stopping_fidelity =
                         Get(arguments, "aqc_stopping_fidelity", Unit),
                     !.aqc_max_iterations =
                         Get(arguments, "aqc_max_iterations", DefaultMaxIterations)]
    /\ Complete("validate", "arguments", {})
    /\ UNCHANGED <<serverless, arguments, opt, results>>
    /\ UNCHANGED fvars

\* In[1]..In[2]: every parameter is read from the bundle up front
ExtractArguments ==
    /\ pc = "arguments"
    /\ IF RequiredKeys \subseteq DOMAIN arguments
       THEN /\ locals' = [locals EXCEPT
                            !.dry_run = Get(arguments, "dry_run", FALSE),
                            !.aqc_stopping_fidelity =
                                Get(arguments, "aqc_stopping_fidelity", Unit),
                            !.aqc_max_iterations =
                                Get(arguments, "aqc_max_iterations",
                                    DefaultMaxIterations)]
            /\ Complete("validate", "arguments", {})
       ELSE /\ Raise("KeyError", FirstMissing(arguments), "lookup")
            /\ UNCHANGED locals
    /\ UNCHANGED <<serverless, arguments, opt, results>>
    /\ UNCHANGED fvars

\* In[3]: the stopping fidelity is checked before anything is computed
Validate ==
    /\ pc = "validate"
    /\ IF StoppingFidelityAccepted(locals.aqc_stopping_fidelity)
       THEN Complete("options", "validate", {})
       ELSE Raise("ValueError", "aqc_stopping_fidelity", "template")
    /\ UNCHANGED <<serverless, arguments, locals, opt, results>>
    /\ UNCHANGED fvars

\* In[4]..In[5]: the caller's estimator options are merged with the defaults;
\* merge updates and returns its first argument, the caller's dict when
\* the bundle holds one
MergeOptions ==
    /\ pc = "options"
    /\ LET merged == merge(IF "estimator_options" \in DOMAIN arguments
                            THEN arguments["estimator_options"]
                            ELSE EmptyDict,
                           estimator_default_options)
       IN  /\ locals' = [locals EXCEPT !.estimator_options = merged]
           /\ arguments' = IF "estimator_options" \in DOMAIN arguments
                           THEN [arguments EXCEPT !["estimator_options"] = merged]
                           ELSE arguments
    /\ Complete("problem", "options", {})
    /\ UNCHANGED <<serverless, opt, results>>
    /\ UNCHANGED fvars

\* In[6]..In[10]: a managed run takes the Hamiltonian and the observable from
\* the bundle; a notebook run builds them
Problem ==
    /\ pc = "problem"
    /\ IF serverless /\ ~({"hamiltonian", "observable"} \subseteq DOMAIN arguments)
       THEN /\ Raise("KeyError",
                     IF "hamiltonian" \in DOMAIN arguments
                     THEN "observable" ELSE "hamiltonian", "lookup")
            /\ UNCHANGED <<serverless, arguments, locals, opt, results>>
            /\ UNCHANGED fvars
       ELSE External("target_circuit", "problem", {})

\* In[11]: the target circuit of the AQC portion
TargetCircuit == pc = "target_circuit" /\ External("ansatz", "target_circuit", {})

\* In[12]: the reduced-depth circuit and the ansatz generated from it
Ansatz ==
    pc = "ansatz" /\ External("target_mps", "ansatz", {"num_aqc_parameters"})

\* In[13]..In[14]: the simulator settings and the target state as an MPS
TargetMps ==
    pc = "target_mps"
      /\ External("starting_fidelity", "target_mps", {"target_bond_dimension"})

\* In[15]: the fidelity of the initial parameters
StartingFidelity ==
    pc = "starting_fidelity"
      /\ External("minimize", "starting_fidelity", {"aqc_starting_fidelity"})

\* stopping_point = 1.0 - aqc_stopping_fidelity
stopping_point == Unit - locals.aqc_stopping_fidelity

\* callback(intermediate_result): TRUE when it raises StopIteration
callback(fun) == fun < stopping_point

\* In[16], inside minimize(): the optimizer raises, or returns without a new
\* iterate (converged, or terminated abnormally), or completes an iteration
\* and calls the callback; it returns when the callback stops it or when
\* maxiter iterations are done
Minimize ==
    /\ pc = "minimize"
    /\ \/ /\ Raise("Exception", "minimize", "external")
          /\ UNCHANGED opt
       \/ /\ \E status \in {Success, Abnormal} :
                opt' = [nit |-> opt.nit, fun |-> opt.fun, status |-> status]
          /\ pc' = "status"
          /\ UNCHANGED <<output, events, exit>>
       \/ \E fun \in Costs :
            LET nit == opt.nit + 1 IN
            /\ opt.nit < locals.aqc_max_iterations
            /\ IF callback(fun)
               THEN /\ opt' = [nit |-> nit, fun |-> fun, status |-> EarlyTermination]
                    /\ pc' = "status"
               ELSE IF nit >= locals.aqc_max_iterations
               THEN /\ opt' = [nit |-> nit, fun |-> fun,
                               status |-> MaxIterationsReached]
                    /\ pc' = "status"
               ELSE /\ opt' = [nit |-> nit, fun |-> fun]
                    /\ UNCHANGED pc
            /\ UNCHANGED <<output, events, exit>>
    /\ UNCHANGED <<serverless, arguments, locals, results>>
    /\ UNCHANGED fvars

\* no check of the status: whatever minimize returns is used
StatusAccepted_verbatim(status) == TRUE

\* result.status in (0, 1, 99)
StatusAccepted(status) ==
    status \in {Success, MaxIterationsReached, EarlyTermination}

\* In[16], after minimize(): the status is checked and the result read for
\* the last time
CheckStatus ==
    /\ pc = "status"
    /\ IF StatusAccepted(opt.status)
       THEN Complete("assign", "minimize", {"num_iterations"})
       ELSE Raise("RuntimeError", "minimize", "template")
    /\ opt' = [nit |-> 0, fun |-> 0]
    /\ UNCHANGED <<serverless, arguments, locals, results>>
    /\ UNCHANGED fvars

\* In[17]..In[18]: the optimized parameters are assigned to the ansatz
AssignParameters ==
    pc = "assign" /\ External("final_fidelity", "assign", {"aqc_final_parameters"})

\* In[19]: the fidelity reached
FinalFidelity ==
    pc = "final_fidelity" /\ External("remainder", "final_fidelity", {"aqc_fidelity"})

\* In[20]: the remaining time evolution is appended
Remainder == pc = "remainder" /\ External("transpile", "remainder", {})

\* In[21]..In[22]: the service, the backend and the ISA circuit
Transpile ==
    pc = "transpile" /\ External("dry_run", "transpile", {"twoqubit_depth"})

\* a save_result that is not reached
save_result_never(bundle) == UNCHANGED results

\* save_result(output)
save_result(bundle) == results' = Append(results, bundle)

\* a dry_run flag that is ignored
DryRunExit_goesOn ==
    /\ pc = "dry_run"
    /\ pc' = "hardware"
    /\ UNCHANGED <<output, events, exit, results>>
    /\ UNCHANGED <<serverless, arguments, locals, opt>>
    /\ UNCHANGED fvars

\* In[23]: a dry run stops here
DryRunExit ==
    /\ pc = "dry_run"
    /\ IF locals.dry_run
       THEN /\ IF serverless
               THEN /\ save_result(output)
                    /\ events' = Append(events, "save")
               ELSE UNCHANGED <<results, events>>
            /\ exit' = [state |-> "exit", what |-> "sys.exit(0)", arg |-> "",
                        by |-> "template"]
            /\ pc' = "done"
            /\ UNCHANGED output
       ELSE /\ pc' = "hardware"
            /\ UNCHANGED <<output, events, exit, results>>
    /\ UNCHANGED <<serverless, arguments, locals, opt>>
    /\ UNCHANGED fvars

perform_hw_expt == FALSE

\* a submission that does not ask how the script is run
Submit_always == pc = "hardware" /\ External("await", "submit", {"job_id"})

\* In[24], first half: the job is submitted and its id recorded
Submit ==
    /\ pc = "hardware"
    /\ IF perform_hw_expt \/ serverless
       THEN External("await", "submit", {"job_id"})
       ELSE /\ pc' = "load"
            /\ UNCHANGED <<output, events, exit>>
            /\ UNCHANGED <<serverless, arguments, locals, opt, results>>
            /\ UNCHANGED fvars

\* In[24], second half: the job's result is awaited and written to disk
AwaitResult == pc = "await" /\ External("load", "await", {})

\* In[25]: the results are loaded from disk
LoadResults ==
    pc = "load" /\ External("report", "load", {"hw_results", "hw_expvals"})

\* In[26]..In[27]: a notebook reports, a managed run saves; the script ends
Report ==
    /\ pc = "report"
    /\ IF serverless
       THEN /\ save_result(output)
            /\ events' = Append(events, "save")
       ELSE /\ UNCHANGED results
            /\ events' = Append(events, "report")
    /\ exit' = [state |-> "exit", what |-> "end of script", arg |-> "",
                by |-> "template"]
    /\ pc' = "done"
    /\ UNCHANGED <<serverless, arguments, locals, opt, output>>
    /\ UNCHANGED fvars

TNext ==
    \/ ExtractArguments
    \/ Validate
    \/ MergeOptions
    \/ Problem
    \/ TargetCircuit
    \/ Ansatz
    \/ TargetMps
    \/ StartingFidelity
    \/ Minimize
    \/ CheckStatus
    \/ AssignParameters
    \/ FinalFidelity
    \/ Remainder
    \/ Transpile
    \/ DryRunExit
    \/ Submit
    \/ AwaitResult
    \/ LoadResults
    \/ Report

TemplateSpec == TInit /\ [][TNext]_vars

\* ================================================================ claims
\* the category each facade is documented to send
Category(cls) == IF cls = Catalog THEN "catalog" ELSE "serverless"

\* the one client call of the last invocation is `op`, on the facade's client,
\* with no positional argument and with the caller's keywords F where `filter`
\* is the facade's category: every other key as given, none added or dropped
FilterMerged(op) ==
    /\ Len(last.client) = 1
    /\ last.client[1].target = facade._client
    /\ last.client[1].op = op
    /\ last.client[1].pos = <<>>
    /\ DOMAIN last.client[1].kw = (DOMAIN last.kw) \cup {"filter"}
    /\ last.client[1].kw["filter"] = Category(last.cls)
    /\ \A k \in (DOMAIN last.kw) \ {"filter"} : last.client[1].kw[k] = last.kw[k]

\* C1: list(**F) calls the client's functions operation with exactly F where
\* `filter` is "catalog" (QiskitFunctionsCatalog) or "serverless"
\* (QiskitServerless), whatever F says about `filter`; with empty F the only
\* keyword sent is `filter`.
C1_ListFilterMerge ==
    last.method = "list" => FilterMerged("functions")

\* a catalog list(filter="serverless", limit=10) that reached the client as
\* filter="catalog", limit=10
C1_Witness ==
    /\ last.method = "list"
    /\ last.cls = Catalog
    /\ DOMAIN last.kw = {"filter", "limit"}
    /\ last.kw["filter"] = "serverless"
    /\ last.client[1].kw = [filter |-> "catalog", limit |-> "10"]

\* C2: jobs(**F) calls the client's jobs operation with F where `filter` is
\* overwritten by the facade's category.
C2_JobsFilterMerge ==
    last.method = "jobs" => FilterMerged("jobs")

\* a serverless jobs(limit=10) that reached the client as filter="serverless",
\* limit=10
C2_Witness ==
    /\ last.method = "jobs"
    /\ last.cls = Serverless
    /\ last.kw = [limit |-> "10"]
    /\ last.client[1].kw = [filter |-> "serverless", limit |-> "10"]

\* C3: list() and jobs() return exactly the sequence the client returned:
\* same length, same elements, same order.
C3_ListReturnsClientSequence ==
    (last.method \in {"list", "jobs"} /\ last.resp.kind = "list") =>
        /\ last.outcome.kind = "list"
        /\ Len(last.outcome.val) = Len(last.resp.val)
        /\ \A i \in 1..Len(last.resp.val) : last.outcome.val[i] = last.resp.val[i]

\* a list() whose client returned two different functions, in that order
C3_Witness ==
    /\ last.method = "list"
    /\ last.resp = [kind |-> "list", val |-> <<"r1", "r2">>]
    /\ last.outcome.val = <<"r1", "r2">>

\* the channel values save_account accepts
AcceptedChannels == {"local", "ibm_quantum", "ibm_cloud"}

\* C4: QiskitFunctionsCatalog.save_account with a channel outside
\* {local, ibm_quantum, ibm_cloud} raises QiskitServerlessException naming the
\* accepted values and never calls the credential store, whatever token,
\* instance, name and overwrite are.
C4_BadChannelRejected ==
    (/\ last.method = "save_account"
     /\ last.cls = Catalog
     /\ last.pos[2] \notin AcceptedChannels \cup {Absent}) =>
        /\ last.outcome.kind = "raise"
        /\ last.outcome.val[1] = "QiskitServerlessException"
        /\ AcceptedChannels = {last.outcome.val[i] : i \in 2..Len(last.outcome.val)}
        /\ last.store = <<>>

\* save_account(token="tok", channel="bogus", overwrite=True) was rejected
C4_Witness ==
    /\ last.method = "save_account"
    /\ last.cls = Catalog
    /\ last.pos[1] = "tok"
    /\ last.pos[2] = "bogus"
    /\ last.pos[5] = "True"
    /\ last.outcome.kind = "raise"

\* C5: QiskitFunctionsCatalog.save_account with a recognised channel calls
\* the credential store exactly once, with the channel's enum value and with
\* token, instance, name and overwrite as given (channel defaults to
\* ibm_quantum, overwrite to False, the others to None).
C5_SaveAccountDelegates ==
    (/\ last.method = "save_account"
     /\ last.cls = Catalog
     /\ last.pos[2] \in AcceptedChannels \cup {Absent}) =>
        /\ Len(last.store) = 1
        /\ last.store[1].target = "QiskitRuntimeService"
        /\ last.store[1].op = "save_account"
        /\ last.store[1].pos = <<>>
        /\ last.store[1].kw =
             [channel |-> IF last.pos[2] = Absent THEN "ibm_quantum" ELSE last.pos[2],
              token |-> IF last.pos[1] = Absent THEN "None" ELSE last.pos[1],
              instance |-> IF last.pos[3] = Absent THEN "None" ELSE last.pos[3],
              name |-> IF last.pos[4] = Absent THEN "None" ELSE last.pos[4],
              overwrite |-> IF last.pos[5] = Absent THEN "False" ELSE last.pos[5]]

\* save_account(channel="ibm_cloud", name="acct", overwrite=True) reached the
\* store
C5_Witness ==
    /\ last.method = "save_account"
    /\ last.cls = Catalog
    /\ last.pos[2] = "ibm_cloud"
    /\ last.pos[4] = "acct"
    /\ last.pos[5] = "True"
    /\ Len(last.store) = 1
    /\ last.store[1].kw.channel = "ibm_cloud"

\* C6: get_job_by_id(id) emits exactly one DeprecationWarning, performs
\* exactly one client job lookup with that id and returns what job(id)
\* returns for the same client answer, the absence sentinel included.
C6_GetJobByIdIsJob ==
    last.method = "get_job_by_id" =>
        /\ last.warnings = <<"DeprecationWarning">>
        /\ last.client = <<Call(facade._client, "job", <<>>, [job_id |-> last.pos[1]])>>
        /\ last.outcome =
             (IF last.cls = Catalog THEN Catalog_job(facade, last.pos[1], last.resp)
              ELSE Serverless_job(facade, last.pos[1], last.resp)).outcome
        /\ last.outcome = last.resp

\* a serverless get_job_by_id("job2") whose lookup found no job
C6_Witness ==
    /\ last.method = "get_job_by_id"
    /\ last.cls = Serverless
    /\ last.pos = <<"job2">>
    /\ last.resp.kind = "none"
    /\ last.outcome.kind = "none"
    /\ Len(last.warnings) = 1


\* the facade's file operations
FileMethods ==
    {"files", "provider_files", "file_download", "provider_file_download",
     "file_delete", "provider_file_delete", "file_upload", "provider_file_upload"}

\* the client operations the facades use for something other than files:
\* looking up, listing and registering functions, listing and looking up jobs
NonFileClientOps == {"function", "functions", "upload", "jobs", "provider_jobs", "job"}

\* the arguments a file operation was given, defaults filled in
GivenFileArguments ==
    IF last.method \in {"file_download", "provider_file_download"}
    THEN {last.pos[1], last.pos[2],
          IF last.pos[3] = Absent THEN "None" ELSE last.pos[3],
          IF last.pos[4] = Absent THEN "./" ELSE last.pos[4]}
    ELSE {last.pos[i] : i \in 1..Len(last.pos)}

\* C8: each file operation of a facade makes one call to the client's file
\* operation of the same kind (never to an operation the client offers for
\* something else), passes it the given file name and function descriptor
\* (and for downloads target_name and download_location, None and "./" by
\* default) and returns the client's result unchanged.
C8_FilePassThrough ==
    last.method \in FileMethods =>
        /\ Len(last.client) = 1
        /\ last.client[1].target = facade._client
        /\ last.client[1].op \notin NonFileClientOps
        /\ {last.client[1].pos[i] : i \in 1..Len(last.client[1].pos)} = GivenFileArguments
        /\ Len(last.client[1].pos) = Len(last.pos)
        /\ last.client[1].kw = NoKw
        /\ last.outcome = last.resp

\* the methods of a facade instance
InstanceMethods ==
    {"load", "list", "jobs", "provider_jobs", "job", "get_job_by_id", "upload"}
        \cup FileMethods

\* C9: every facade instance method performs exactly one call into the client
\* per invocation; when that call raises, the same error reaches the caller
\* and no second client call is made.
C9_OneClientCall ==
    last.method \in InstanceMethods =>
        /\ Len(last.client) = 1
        /\ last.client[1].target = facade._client
        /\ last.store = <<>>
        /\ last.resp.kind = "raise" => last.outcome = last.resp

\* a load() whose client call raised, and the caller saw that error
C9_Witness ==
    /\ last.method = "load"
    /\ last.cls = Catalog
    /\ last.resp = [kind |-> "raise", val |-> <<"ClientError">>]
    /\ last.outcome = last.resp
    /\ Len(last.client) = 1

\* C10: no facade method call, successful or failing, changes the facade: it
\* keeps the client reference set at construction and holds nothing else, and
\* the client call an invocation makes is the one the same arguments led to
\* before, whatever was called in between.
C10_FacadeStateless ==
    [][/\ facade' = facade
       /\ DOMAIN facade' = {"cls", "_client"}
       /\ (/\ first.seen
           /\ last'.method # "save_account"
           /\ watch = [method |-> last'.method, pos |-> last'.pos, kw |-> last'.kw])
          => last'.client = first.calls]_vars

\* the watched jobs(limit=10) was invoked again after other calls, the second
\* time with a failing client, and made the same client call
C10_Witness ==
    /\ watch.method = "jobs"
    /\ first.again
    /\ last.method = "jobs"
    /\ last.kw = watch.kw
    /\ last.resp.kind = "raise"
    /\ last.client = first.calls
    /\ facade.cls = Catalog


\* the listing requests a catalog sends: functions, jobs, a provider's jobs
ListingMethods == {"list", "jobs", "provider_jobs"}

\* C14 as stated: every listing request of a QiskitFunctionsCatalog, from
\* list, jobs and provider_jobs, reaches the client with filter="catalog".
C14_EveryListingFiltered ==
    (last.cls = Catalog /\ last.method \in ListingMethods) =>
        /\ Len(last.client) = 1
        /\ "filter" \in DOMAIN last.client[1].kw
        /\ last.client[1].kw["filter"] = "catalog"

\* C14, amended: list and jobs of a QiskitFunctionsCatalog reach the client
\* with filter="catalog" whatever the caller passed; provider_jobs applies no
\* filter: it passes the function and the caller's keywords on unchanged, a
\* caller's `filter` included.
C14_ListingFilterExceptProviderJobs ==
    /\ (last.cls = Catalog /\ last.method \in {"list", "jobs"}) =>
          /\ Len(last.client) = 1
          /\ "filter" \in DOMAIN last.client[1].kw
          /\ last.client[1].kw["filter"] = "catalog"
    /\ (last.cls = Catalog /\ last.method = "provider_jobs") =>
          /\ Len(last.client) = 1
          /\ last.client[1].op = "provider_jobs"
          /\ last.client[1].pos = last.pos
          /\ last.client[1].kw = last.kw

\* a provider_jobs(fn1, filter="serverless") that reached the client with
\* filter="serverless"
C14_Witness ==
    /\ last.cls = Catalog
    /\ last.method = "provider_jobs"
    /\ "filter" \in DOMAIN last.kw
    /\ last.kw["filter"] = "serverless"
    /\ last.client[1].kw["filter"] = "serverless"

\* C15: on QiskitServerless, file_upload, file_download and file_delete never
\* invoke the client operation that upload(function) uses to register a
\* function.
C15_FileOpsNeverRegister ==
    (last.cls = Serverless
       /\ last.method \in {"file_upload", "file_download", "file_delete"}) =>
        \A i \in 1..Len(last.client), function \in Functions :
            last.client[i].op
                # Serverless_upload(facade, function, last.resp).client[1].op

\* ------------------------------------------------- claims on the template
\* the stages a run has completed
Stages == {events[i] : i \in DOMAIN events}

\* circuit construction, tensor-network simulation, optimization,
\* transpilation, job submission and everything after them
Computation ==
    {"problem", "target_circuit", "ansatz", "target_mps", "starting_fidelity",
     "minimize", "assign", "final_fidelity", "remainder", "transpile", "submit",
     "await", "load", "report", "save"}

\* the stopping fidelity the bundle asks for, 1.0 when it names none
RequestedFidelity ==
    IF "aqc_stopping_fidelity" \in DOMAIN arguments
    THEN arguments["aqc_stopping_fidelity"] ELSE 10

InRange(f) == 0 < f /\ f <= 10

Ended == exit.state # "running"

\* C11 as stated: every bundle whose stopping fidelity is outside (0, 1],
\* whatever else it holds or lacks, ends in the stopping-fidelity validation
\* error, before any computation.
C11_InvalidFidelityAlwaysValidationError ==
    (~InRange(RequestedFidelity) /\ Ended) =>
        /\ exit.state = "error"
        /\ exit.what = "ValueError"
        /\ Stages \cap Computation = {}

\* C11, amended: a stopping fidelity f is accepted iff 0 < f <= 1.  A bundle
\* that supplies every required argument and whose f is outside (0, 1] ends in
\* the validation error the script raises, with nothing computed.  A bundle
\* that lacks a required argument ends earlier, in the KeyError of the lookup,
\* before the fidelity is looked at, also with nothing computed.
C11_InvalidFidelityRejectedAfterExtraction ==
    /\ "validate" \in Stages => InRange(RequestedFidelity)
    /\ (exit.what = "ValueError") => ~InRange(RequestedFidelity)
    /\ ~InRange(RequestedFidelity) =>
          /\ pc \in {"arguments", "validate", "done"}
          /\ Stages \cap Computation = {}
          /\ Ended =>
                IF RequiredKeys \subseteq DOMAIN arguments
                THEN /\ exit = [state |-> "error", what |-> "ValueError",
                                arg |-> "aqc_stopping_fidelity", by |-> "template"]
                     /\ events = <<"arguments">>
                ELSE /\ exit.state = "error"
                     /\ exit.what = "KeyError"
                     /\ events = <<>>

\* a managed run with every required argument and stopping fidelity 1.1,
\* ended by the validation error
C11_Witness ==
    /\ serverless
    /\ RequiredKeys \subseteq DOMAIN arguments
    /\ RequestedFidelity = 11
    /\ exit.what = "ValueError"

\* the arguments that have a default
OptionalKeys ==
    {"dry_run", "aqc_stopping_fidelity", "aqc_max_iterations", "estimator_options"}

\* C20: a bundle that lacks one of the six required arguments ends in the
\* KeyError of that lookup with nothing computed and nothing in the output;
\* absent dry_run, aqc_stopping_fidelity, aqc_max_iterations and
\* estimator_options never raise and take False, 1.0, 500 and the defaults
\* alone.
C20_MissingRequiredFailsEarly ==
    /\ ~(RequiredKeys \subseteq DOMAIN arguments) =>
          \/ pc = "arguments"
          \/ /\ exit.state = "error"
             /\ exit.what = "KeyError"
             /\ exit.arg \in RequiredKeys \ DOMAIN arguments
             /\ events = <<>>
             /\ output = {}
    /\ exit.what = "KeyError" => exit.arg \notin OptionalKeys
    /\ "arguments" \in Stages =>
          /\ "dry_run" \notin DOMAIN arguments => locals.dry_run = FALSE
          /\ "aqc_stopping_fidelity" \notin DOMAIN arguments =>
                locals.aqc_stopping_fidelity = 10
          /\ "aqc_max_iterations" \notin DOMAIN arguments =>
                locals.aqc_max_iterations = 500
    /\ ("options" \in Stages /\ "estimator_options" \notin DOMAIN arguments) =>
          locals.estimator_options = estimator_default_options

\* a bundle with no optional argument and without remainder_num_trotter_steps,
\* ended by the KeyError of that lookup
C20_Witness ==
    /\ DOMAIN arguments \cap OptionalKeys = {}
    /\ "remainder_num_trotter_steps" \notin DOMAIN arguments
    /\ exit.what = "KeyError"
    /\ exit.arg = "remainder_num_trotter_steps"

\* the paths to the leaves of a nested option dict
RECURSIVE LeafPaths(_)
LeafPaths(d) ==
    UNION { IF d[k].t = "leaf" THEN {<<k>>}
            ELSE {<<k>> \o p : p \in LeafPaths(d[k].d)} : k \in DOMAIN d }

\* the value at a path
RECURSIVE At(_, _)
At(d, path) ==
    IF Len(path) = 1 THEN d[path[1]] ELSE At(d[path[1]].d, Tail(path))

\* C19: when the options are merged, every option path set both by the
\* caller and by the defaults keeps the caller's value, and every default path
\* the caller did not set keeps its default.
C19_UserOptionsTakePrecedence ==
    [][(pc = "options" /\ pc' = "problem"
          /\ "estimator_options" \in DOMAIN arguments) =>
        LET user == arguments["estimator_options"]
            merged == locals'.estimator_options
        IN  /\ \A p \in LeafPaths(user) \cap LeafPaths(estimator_default_options) :
                  At(merged, p) = At(user, p)
            /\ \A p \in LeafPaths(estimator_default_options) \ LeafPaths(user) :
                  At(merged, p) = At(estimator_default_options, p)]_vars

\* C13 as stated: a run that fails while optimizing fails with an error the
\* optimizer raised; the script raises none of its own for an optimizer
\* outcome.
C13_OptimizerFailuresVerbatim ==
    (exit.state = "error" /\ exit.arg = "minimize") => exit.by = "external"

\* C13, amended: an exception minimize raises propagates; when minimize
\* returns, the script checks the status itself: with status 0, 1 (iteration
\* cap reached) or 99 (stopped by the callback) the run goes on to assign the
\* parameters, with any other status the script raises its own RuntimeError
\* and nothing after it runs.
C13_StatusCheckedByScript ==
    [][pc = "status" =>
         IF opt.status \in {0, 1, 99}
         THEN /\ pc' = "assign"
              /\ exit' = exit
              /\ events' = Append(events, "minimize")
         ELSE /\ pc' = "done"
              /\ exit' = [state |-> "error", what |-> "RuntimeError",
                          arg |-> "minimize", by |-> "template"]
              /\ events' = events]_vars

\* a run ended by the script's RuntimeError, no later stage completed
C13_Witness ==
    /\ exit.what = "RuntimeError"
    /\ exit.by = "template"
    /\ events[Len(events)] = "starting_fidelity"

\* C16: the loop makes at most aqc_max_iterations iterations, and it does not
\* go on after an iteration whose fidelity (1 - cost) has reached the
\* stopping fidelity: the optimizer is still running only if the last
\* iterate is short of it.
C16_StopsOnceFidelityReached ==
    pc \in {"minimize", "status"} =>
        /\ opt.nit <= locals.aqc_max_iterations
        /\ (pc = "minimize" /\ opt.nit > 0) =>
              10 - opt.fun < locals.aqc_stopping_fidelity

\* the order of the stages in the script, up to transpilation
Pipeline ==
    <<"arguments", "validate", "options", "problem", "target_circuit", "ansatz",
      "target_mps", "starting_fidelity", "minimize", "assign", "final_fidelity",
      "remainder", "transpile">>

\* what follows transpilation, by how the script is run
AfterTranspile ==
    IF "dry_run" \in DOMAIN arguments /\ arguments["dry_run"]
    THEN IF serverless THEN <<"save">> ELSE <<>>
    ELSE IF serverless THEN <<"submit", "await", "load", "save">>
    ELSE <<"load", "report">>

IsPrefix(s, t) == Len(s) <= Len(t) /\ \A i \in 1..Len(s) : s[i] = t[i]

\* C12 as stated, its last clause: a job is submitted only after
\* transpilation, and results are persisted only after the job's result has
\* been received.
C12_PersistOnlyAfterJobResult ==
    /\ "submit" \in Stages => "transpile" \in Stages
    /\ "save" \in Stages => "await" \in Stages

\* C12, amended: the stages a run has completed are always an initial part of
\* one fixed order, none skipped or repeated: arguments, validation, options,
\* Hamiltonian, target circuit, ansatz, target MPS, starting fidelity,
\* optimization, assignment, final fidelity, remainder, transpilation; then
\* for a managed run submit, await, load, save; for a notebook run load,
\* report; for a managed dry run save alone, with no job.  A run that ends
\* without error has completed all of them.  A job is never submitted before
\* transpilation, and a run that is not a dry run never saves before the job's
\* result has been received.
C12_StagesInScriptOrder ==
    /\ IsPrefix(events, Pipeline \o AfterTranspile)
    /\ exit.state = "exit" => events = Pipeline \o AfterTranspile
    /\ "submit" \in Stages => "transpile" \in Stages
    /\ ("save" \in Stages /\ ~("dry_run" \in DOMAIN arguments /\ arguments["dry_run"]))
          => "await" \in Stages

\* a managed run that went through every stage, job included
C12_Witness ==
    /\ serverless
    /\ events = Pipeline \o <<"submit", "await", "load", "save">>
    /\ exit.state = "exit"

\* the keys written before the hardware part
EarlierKeys ==
    {"num_aqc_parameters", "target_bond_dimension", "aqc_starting_fidelity",
     "num_iterations", "aqc_final_parameters", "aqc_fidelity"}

HardwareKeys == {"job_id", "hw_results", "hw_expvals"}

C18_SavedOnceOnSuccess ==
    /\ Len(results) <= 1
    /\ (serverless /\ exit.state = "exit") => results = <<output>>
    /\ exit.state = "error" => results = <<>>
    /\ ~serverless => results = <<>>
    /\ (serverless /\ exit.state = "exit" /\ ~locals.dry_run) =>
          results[1] = EarlierKeys \cup {"twoqubit_depth"} \cup HardwareKeys
    /\ pc = "await" => "job_id" \in output

\* a managed run with dry_run false that ended without error, all ten keys
\* saved
C18_Witness ==
    /\ serverless
    /\ ~locals.dry_run
    /\ exit.what = "end of script"
    /\ Len(results) = 1
    /\ {"job_id", "hw_results", "hw_expvals", "twoqubit_depth"} \subseteq results[1]

====
